---- MODULE Spec2Model ----
(***************************************************************************)
(* Model of bench/logit_bench.cpp: execute_scenario, which runs            *)
(* run_workload twice (warm-up, measured) on one LatencyRecorder, and the  *)
(* start barrier, producer loop, join and flush inside run_workload.       *)
(* LatencyRecorder and the adapter are declared in headers that are not    *)
(* part of the translated source; they are modelled from the design text.  *)
(***************************************************************************)
EXTENDS Integers, Sequences, FiniteSets, TLC

\* ---- bounds of the explored scenarios ----
MaxProducers == 2
MaxTotal == 2
MaxWarmup == 2
\* ---- bounds of the recorder contents explored for finalize alone ----
MaxSlots == 3
MaxTime == 3
\* ---- number of scenarios of main's sweep that are explored ----
SweepLength == 2

VARIABLES
    scenario,         \* Scenario: producers, total_messages, async
    warmup_messages,  \* execute_scenario argument
    proc,             \* process: "running", "terminate" (std::terminate), "segv"
    phase,            \* "none", "warmup", "measured": which run_workload call is active
    ctl_pc,           \* position of the controlling thread
    args,             \* run_workload arguments: total_messages, record_latency, measure_duration
    per_thread,       \* run_workload local: message share per producer
    spawn_i,          \* run_workload: thread-creation loop index = threads.size()
    start_flag,       \* run_workload local, guarded by start_mx
    ready,            \* run_workload local, guarded by start_mx
    start_mx,         \* "free" or "ctl" (producers hold it only inside one atomic step)
    thr_pc,           \* position of each producer thread
    thr_n,            \* producer loop counter n
    thr_token,        \* token held by a producer between begin and log
    joined,           \* set of producer threads already joined
    t0, t1,           \* run_workload timestamps
    dur,              \* value returned by the last run_workload call
    clock,            \* steady_clock
    rec,              \* LatencyRecorder: capacity, next, slots
    queue,            \* adapter: tokens logged and not yet completed by the sink
    prepared,         \* adapter.prepare was called
    result,           \* ScenarioResult and the sample count behind its summary
    issued,           \* slot indices handed out by begin so far
    dup,              \* TRUE once begin handed out an index it had handed out before
    proto,            \* per-token record of the log and complete calls made so far
    hist,             \* observation counters of the current run and of the recorder
    main_pc,          \* position of main ("idle": execute_scenario on its own)
    sweep_left,       \* scenarios of the sweep not yet executed
    timeout_enabled,  \* timeout_seconds > 0
    wd_pc,            \* position of the watchdog thread
    watchdog_done,    \* std::atomic<bool> watchdog_done
    deadline_passed,  \* steady_clock has reached the watchdog's deadline
    report            \* what main reported: failure messages, sweep over before the deadline

vars == <<scenario, warmup_messages, proc, phase, ctl_pc, args, per_thread, spawn_i,
          start_flag, ready, start_mx, thr_pc, thr_n, thr_token, joined, t0, t1, dur,
          clock, rec, queue, prepared, result, issued, dup, proto, hist,
          main_pc, sweep_left, timeout_enabled, wd_pc, watchdog_done, deadline_passed, report>>

Producers == 0 .. (scenario.producers - 1)
Running == proc = "running"

\* ---- pure helpers ----

RECURSIVE SumTo(_, _)
SumTo(f, k) == IF k = 0 THEN 0 ELSE f[k - 1] + SumTo(f, k - 1)

\* The distribution loop of run_workload, iterated as the code does.
RECURSIVE DistributeFrom(_, _, _, _, _)
DistributeFrom(i, producers, base, rem, acc) ==
    IF i >= producers THEN acc
    ELSE DistributeFrom(i + 1, producers, base,
                        IF rem # 0 THEN rem - 1 ELSE rem,
                        [acc EXCEPT ![i] = base + (IF rem # 0 THEN 1 ELSE 0)])

DistributeNoRemainder(total, producers) ==
    [i \in 0 .. (producers - 1) |-> total \div producers]

\* (variant: the extra messages go to the last threads instead of the first)
DistributeTail(total, producers) ==
    [i \in 0 .. (producers - 1) |->
        (total \div producers)
        + (IF i >= producers - (total % producers) THEN 1 ELSE 0)]

Distribute(total, producers) ==
    DistributeFrom(0, producers, total \div producers, total % producers,
                   [i \in 0 .. (producers - 1) |-> 0])

NoToken == [index |-> 0, record |-> FALSE]
EmptySummary == [p50_ns |-> 0, p99_ns |-> 0, p999_ns |-> 0]
\* A throughput of `messages` per `per_ns` nanoseconds; 0.0 is ZeroThroughput.
ZeroThroughput == [messages |-> 0, per_ns |-> 1]
NoResult == [set |-> FALSE, count |-> 0, summary |-> EmptySummary,
             throughput |-> ZeroThroughput, duration |-> 0]
NoCalls == [logged |-> {}, completed |-> {}, violated |-> FALSE]
FreshHist == [begin_calls |-> 0, log_calls |-> 0, flush_calls |-> 0, flushed |-> FALSE,
              spawn_failed |-> FALSE, producer_threw |-> FALSE, t0_set |-> FALSE, t1_set |-> FALSE,
              first_begin |-> -1, last_log |-> -1]

\* ---- LatencyRecorder (from the design text) ----

NewRecorder(capacity) ==
    [capacity |-> capacity, next |-> 0,
     slots |-> [s \in 0 .. (capacity - 1) |-> [start |-> -1, end |-> -1]]]

NextIndexStuck(cur) == cur

\* begin: the atomic fetch-and-increment of the slot counter.
NextIndex(cur) == cur + 1

InRange(r, idx) == idx < r.capacity

\* steady_clock::now() returned `clock`; a later reading is equal or greater.
ClockAfterRead == {clock, clock + 1}

\* Slots that hold both timestamps, in slot order.
RECURSIVE DurationsFrom(_, _)
DurationsFrom(r, k) ==
    IF k >= r.capacity THEN << >>
    ELSE LET s == r.slots[k]
             rest == DurationsFrom(r, k + 1)
         IN IF s.start # -1 /\ s.end # -1 THEN <<s.end - s.start>> \o rest ELSE rest

RECURSIVE Insert(_, _)
Insert(x, sq) ==
    IF sq = << >> THEN <<x>>
    ELSE IF x <= Head(sq) THEN <<x>> \o sq
    ELSE <<Head(sq)>> \o Insert(x, Tail(sq))

Unsorted(sq) == sq

RECURSIVE Sort(_)
Sort(sq) == IF sq = << >> THEN << >> ELSE Insert(Head(sq), Sort(Tail(sq)))

\* Nearest-rank selection: the ceil(num/den * n)-th smallest sample, 0 when empty.
Percentile(sorted, num, den) ==
    IF Len(sorted) = 0 THEN 0
    ELSE LET rank == (num * Len(sorted) + den - 1) \div den
         IN sorted[IF rank < 1 THEN 1 ELSE rank]

Finalize(r) ==
    LET sorted == Sort(DurationsFrom(r, 0))
    IN [count |-> Len(sorted),
        summary |-> [p50_ns |-> Percentile(sorted, 50, 100),
                     p99_ns |-> Percentile(sorted, 99, 100),
                     p999_ns |-> Percentile(sorted, 999, 1000)]]

CompletedSlots(r) == Cardinality({s \in DOMAIN r.slots : r.slots[s].end # -1})

\* ---- start_cv ----

\* notify_one: the possible (thr_pc, ctl_pc) after waking one waiter, if any.
NotifyOne(tp, cp) ==
    LET ws == {i \in DOMAIN tp : tp[i] = "blocked"}
    IN IF ws = {} /\ cp # "cv_blocked" THEN {<<tp, cp>>}
       ELSE {<<[tp EXCEPT ![w] = "woken"], cp>> : w \in ws}
            \cup (IF cp = "cv_blocked" THEN {<<tp, "cv_woken">>} ELSE {})

\* notify_all: every waiting producer is woken (the caller is the controlling thread).
NotifyAll(tp) == [i \in DOMAIN tp |-> IF tp[i] = "blocked" THEN "woken" ELSE tp[i]]

NoReport == [failure_msgs |-> 0, failed |-> FALSE, over_in_time |-> FALSE]

\* main is not part of the run: execute_scenario is entered directly.
MainIdle ==
    /\ main_pc = "idle"
    /\ sweep_left = 0
    /\ timeout_enabled = FALSE
    /\ wd_pc = "none"
    /\ watchdog_done = FALSE
    /\ deadline_passed = FALSE
    /\ report = NoReport

\* ---- initial state: one execute_scenario call ----

Init ==
    /\ scenario \in [producers : 0 .. MaxProducers, total_messages : 0 .. MaxTotal,
                      async : BOOLEAN]
    /\ warmup_messages \in 0 .. MaxWarmup
    /\ proc = "running"
    /\ phase = "none"
    /\ ctl_pc = "construct"
    /\ args = [total_messages |-> 0, record_latency |-> FALSE, measure_duration |-> FALSE]
    /\ per_thread = << >>
    /\ spawn_i = 0
    /\ start_flag = FALSE
    /\ ready = 0
    /\ start_mx = "free"
    /\ thr_pc = [i \in Producers |-> "none"]
    /\ thr_n = [i \in Producers |-> 0]
    /\ thr_token = [i \in Producers |-> NoToken]
    /\ joined = {}
    /\ t0 = 0
    /\ t1 = 0
    /\ dur = 0
    /\ clock = 1
    /\ rec = NewRecorder(0)
    /\ queue = {}
    /\ prepared = FALSE
    /\ result = NoResult
    /\ issued = {}
    /\ dup = FALSE
    /\ proto = NoCalls
    /\ hist = FreshHist
    /\ MainIdle

runLocals == <<per_thread, spawn_i, start_flag, ready, start_mx, thr_pc, thr_n, thr_token,
               joined, t0, t1>>
mainVars == <<main_pc, sweep_left, timeout_enabled, wd_pc, watchdog_done, deadline_passed,
              report>>
scenarioVars == <<scenario, warmup_messages, mainVars>>
recorderVars == <<rec, issued, dup, proto>>

\* ---- execute_scenario ----

E_Construct ==
    /\ Running /\ ctl_pc = "construct"
    /\ rec' = NewRecorder(scenario.total_messages)
    /\ ctl_pc' = "prepare"
    /\ UNCHANGED <<scenarioVars, proc, phase, args, runLocals, dur, clock, queue, prepared,
                   result, issued, dup, proto, hist>>

E_Prepare ==
    /\ Running /\ ctl_pc = "prepare"
    /\ prepared' = TRUE
    /\ ctl_pc' = "call_warmup"
    /\ UNCHANGED <<scenarioVars, proc, phase, args, runLocals, dur, clock, queue,
                   recorderVars, result, hist>>

\* Entering run_workload: fresh locals for this call.
EnterRun(ph, a) ==
    /\ phase' = ph
    /\ args' = a
    /\ per_thread' = << >>
    /\ spawn_i' = 0
    /\ start_flag' = FALSE
    /\ ready' = 0
    /\ start_mx' = "free"
    /\ thr_pc' = [i \in Producers |-> "none"]
    /\ thr_n' = [i \in Producers |-> 0]
    /\ thr_token' = [i \in Producers |-> NoToken]
    /\ joined' = {}
    /\ t0' = 0
    /\ t1' = 0
    /\ hist' = FreshHist
    /\ ctl_pc' = "rw_entry"
    /\ UNCHANGED <<scenarioVars, proc, dur, clock, queue, prepared, recorderVars, result>>

E_CallWarmup ==
    /\ Running /\ ctl_pc = "call_warmup"
    /\ EnterRun("warmup", [total_messages |-> warmup_messages,
                           record_latency |-> FALSE, measure_duration |-> FALSE])

E_CallMeasured ==
    /\ Running /\ ctl_pc = "call_measured"
    /\ EnterRun("measured", [total_messages |-> scenario.total_messages,
                             record_latency |-> TRUE, measure_duration |-> TRUE])

ThroughputClamped(total, d) == [messages |-> total, per_ns |-> IF d > 0 THEN d ELSE 1]

\* Lines 164-168: total / (dur / 1e9) when dur > 0, else the initial 0.0.
Throughput(total, d) ==
    IF d > 0 THEN [messages |-> total, per_ns |-> d] ELSE ZeroThroughput

E_Finalize ==
    /\ Running /\ ctl_pc = "finalize"
    /\ LET f == Finalize(rec)
       IN result' = [set |-> TRUE, count |-> f.count, summary |-> f.summary,
                     throughput |-> Throughput(scenario.total_messages, dur),
                     duration |-> dur]
    /\ ctl_pc' = "done"
    /\ UNCHANGED <<scenarioVars, proc, phase, args, runLocals, dur, clock, queue, prepared,
                   recorderVars, hist>>

\* ---- run_workload: controlling thread ----

\* Where the caller continues after run_workload returns.
AfterRun == IF phase = "warmup" THEN "call_measured" ELSE "finalize"
Bump(field) == [hist EXCEPT ![field] = @ + 1]

RW_ZeroFlush ==
    /\ Running /\ ctl_pc = "rw_entry" /\ scenario.producers = 0
    /\ hist' = Bump("flush_calls")
    /\ ctl_pc' = "z_flushing"
    /\ UNCHANGED <<scenarioVars, proc, phase, args, runLocals, dur, clock, queue, prepared,
                   recorderVars, result>>

RW_ZeroReturnTimed ==
    /\ Running /\ ctl_pc = "z_flushing" /\ queue = {}
    /\ hist' = [hist EXCEPT !.flushed = TRUE]
    /\ dur' = clock - t0
    /\ ctl_pc' = AfterRun
    /\ UNCHANGED <<scenarioVars, proc, phase, args, runLocals, clock, queue, prepared,
                   recorderVars, result>>

RW_ZeroReturn ==
    /\ Running /\ ctl_pc = "z_flushing" /\ queue = {}
    /\ hist' = [hist EXCEPT !.flushed = TRUE]
    /\ dur' = 0
    /\ ctl_pc' = AfterRun
    /\ UNCHANGED <<scenarioVars, proc, phase, args, runLocals, clock, queue, prepared,
                   recorderVars, result>>

RW_Distribute ==
    /\ Running /\ ctl_pc = "rw_entry" /\ scenario.producers # 0
    /\ per_thread' = Distribute(args.total_messages, scenario.producers)
    /\ ctl_pc' = "spawn"
    /\ UNCHANGED <<scenarioVars, proc, phase, args, spawn_i, start_flag, ready, start_mx,
                   thr_pc, thr_n, thr_token, joined, t0, t1, dur, clock, queue, prepared,
                   recorderVars, result, hist>>

RW_Spawn ==
    /\ Running /\ ctl_pc = "spawn" /\ spawn_i < scenario.producers
    /\ thr_pc' = [thr_pc EXCEPT ![spawn_i] = "start"]
    /\ spawn_i' = spawn_i + 1
    /\ ctl_pc' = IF spawn_i + 1 < scenario.producers THEN "spawn" ELSE "lock"
    /\ UNCHANGED <<scenarioVars, proc, phase, args, per_thread, start_flag, ready, start_mx,
                   thr_n, thr_token, joined, t0, t1, dur, clock, queue, prepared,
                   recorderVars, result, hist>>

\* std::thread construction throws; the exception unwinds run_workload, and
\* destroying `threads` with a joinable element calls std::terminate.
RW_SpawnFail ==
    /\ Running /\ ctl_pc = "spawn" /\ spawn_i < scenario.producers
    /\ hist' = [hist EXCEPT !.spawn_failed = TRUE]
    /\ IF spawn_i >= 1
       THEN proc' = "terminate" /\ ctl_pc' = ctl_pc
       ELSE proc' = proc /\ ctl_pc' = "exception"
    /\ UNCHANGED <<scenarioVars, phase, args, runLocals, dur, clock, queue, prepared,
                   recorderVars, result>>

SomeReady == ready >= 1

\* The predicate of the controlling thread's start_cv.wait.
AllReady == ready = scenario.producers

\* start_cv.wait(lk, pred) as entered or resumed by the controlling thread.
CtlWait ==
    /\ start_mx = "free"
    /\ IF AllReady
       THEN start_mx' = "ctl" /\ ctl_pc' = "t0"
       ELSE start_mx' = "free" /\ ctl_pc' = "cv_blocked"
    /\ UNCHANGED <<scenarioVars, proc, phase, args, per_thread, spawn_i, start_flag, ready,
                   thr_pc, thr_n, thr_token, joined, t0, t1, dur, clock, queue, prepared,
                   recorderVars, result, hist>>

RW_Lock == Running /\ ctl_pc = "lock" /\ CtlWait

RW_Reacquire == Running /\ ctl_pc = "cv_woken" /\ CtlWait

RW_T0Skip ==
    /\ Running /\ ctl_pc = "t0"
    /\ ctl_pc' = "release"
    /\ UNCHANGED <<scenarioVars, proc, phase, args, runLocals, dur, clock, queue, prepared,
                   recorderVars, result, hist>>

RW_T0 ==
    /\ Running /\ ctl_pc = "t0"
    /\ IF args.measure_duration
       THEN t0' = clock /\ clock' \in ClockAfterRead /\ hist' = [hist EXCEPT !.t0_set = TRUE]
       ELSE UNCHANGED <<t0, clock, hist>>
    /\ ctl_pc' = "release"
    /\ UNCHANGED <<scenarioVars, proc, phase, args, per_thread, spawn_i, start_flag, ready,
                   start_mx, thr_pc, thr_n, thr_token, joined, t1, dur, queue, prepared,
                   recorderVars, result>>

RW_Release ==
    /\ Running /\ ctl_pc = "release"
    /\ start_flag' = TRUE
    /\ thr_pc' = NotifyAll(thr_pc)
    /\ start_mx' = "free"
    /\ ctl_pc' = "join"
    /\ UNCHANGED <<scenarioVars, proc, phase, args, per_thread, spawn_i, ready, thr_n,
                   thr_token, joined, t0, t1, dur, clock, queue, prepared, recorderVars,
                   result, hist>>

\* threads are joined in vector order; join blocks until the thread has finished.
JoinIndex == Cardinality(joined)

RW_JoinNoWait ==
    /\ Running /\ ctl_pc = "join"
    /\ JoinIndex < scenario.producers
    /\ joined' = joined \cup {JoinIndex}
    /\ ctl_pc' = IF JoinIndex + 1 < scenario.producers THEN "join" ELSE "flush"
    /\ UNCHANGED <<scenarioVars, proc, phase, args, per_thread, spawn_i, start_flag, ready,
                   start_mx, thr_pc, thr_n, thr_token, t0, t1, dur, clock, queue, prepared,
                   recorderVars, result, hist>>

RW_Join ==
    /\ Running /\ ctl_pc = "join"
    /\ JoinIndex < scenario.producers
    /\ thr_pc[JoinIndex] = "done"
    /\ joined' = joined \cup {JoinIndex}
    /\ ctl_pc' = IF JoinIndex + 1 < scenario.producers THEN "join" ELSE "flush"
    /\ UNCHANGED <<scenarioVars, proc, phase, args, per_thread, spawn_i, start_flag, ready,
                   start_mx, thr_pc, thr_n, thr_token, t0, t1, dur, clock, queue, prepared,
                   recorderVars, result, hist>>

RW_FlushSkipped ==
    /\ Running /\ ctl_pc = "flush"
    /\ ctl_pc' = "ret"
    /\ UNCHANGED <<scenarioVars, proc, phase, args, runLocals, dur, clock, queue, prepared,
                   recorderVars, result, hist>>

RW_FlushCall ==
    /\ Running /\ ctl_pc = "flush"
    /\ hist' = Bump("flush_calls")
    /\ ctl_pc' = "flushing"
    /\ UNCHANGED <<scenarioVars, proc, phase, args, runLocals, dur, clock, queue, prepared,
                   recorderVars, result>>

\* flush blocks until the sink has processed every outstanding message.
RW_FlushReturn ==
    /\ Running /\ ctl_pc = "flushing" /\ queue = {}
    /\ hist' = [hist EXCEPT !.flushed = TRUE]
    /\ ctl_pc' = "ret"
    /\ UNCHANGED <<scenarioVars, proc, phase, args, runLocals, dur, clock, queue, prepared,
                   recorderVars, result>>

RW_ReturnTimed ==
    /\ Running /\ ctl_pc = "ret"
    /\ t1' = clock /\ clock' \in ClockAfterRead
    /\ dur' = clock - t0
    /\ hist' = hist
    /\ ctl_pc' = AfterRun
    /\ UNCHANGED <<scenarioVars, proc, phase, args, per_thread, spawn_i, start_flag, ready,
                   start_mx, thr_pc, thr_n, thr_token, joined, t0, queue, prepared,
                   recorderVars, result>>

RW_Return ==
    /\ Running /\ ctl_pc = "ret"
    /\ IF ~args.measure_duration
       THEN dur' = 0 /\ UNCHANGED <<t1, clock, hist>>
       ELSE /\ t1' = clock /\ clock' \in ClockAfterRead
            /\ dur' = clock - t0
            /\ hist' = [hist EXCEPT !.t1_set = TRUE]
    /\ ctl_pc' = AfterRun
    /\ UNCHANGED <<scenarioVars, proc, phase, args, per_thread, spawn_i, start_flag, ready,
                   start_mx, thr_pc, thr_n, thr_token, joined, t0, queue, prepared,
                   recorderVars, result>>

\* ---- run_workload: producer threads ----

\* The predicate of the producer's start_cv.wait.
Released == start_flag

\* Lines 88-91 under start_mx: ++ready, notify_one when last, then wait.
P_Arrive(i) ==
    /\ Running /\ thr_pc[i] = "start" /\ start_mx = "free"
    /\ ready' = ready + 1
    /\ \E out \in (IF ready + 1 = scenario.producers
                   THEN NotifyOne(thr_pc, ctl_pc) ELSE {<<thr_pc, ctl_pc>>}) :
          /\ thr_pc' = [out[1] EXCEPT ![i] = IF Released THEN "loop" ELSE "blocked"]
          /\ ctl_pc' = out[2]
    /\ UNCHANGED <<scenarioVars, proc, phase, args, per_thread, spawn_i, start_flag, start_mx,
                   thr_n, thr_token, joined, t0, t1, dur, clock, queue, prepared,
                   recorderVars, result, hist>>

\* A woken producer re-acquires start_mx and re-evaluates the predicate.
P_Reacquire(i) ==
    /\ Running /\ thr_pc[i] = "woken" /\ start_mx = "free"
    /\ thr_pc' = [thr_pc EXCEPT ![i] = IF Released THEN "loop" ELSE "blocked"]
    /\ UNCHANGED <<scenarioVars, proc, phase, ctl_pc, args, per_thread, spawn_i, start_flag,
                   ready, start_mx, thr_n, thr_token, joined, t0, t1, dur, clock, queue,
                   prepared, recorderVars, result, hist>>

\* condition_variable::wait may return without a notification.
P_Spurious(i) ==
    /\ Running /\ thr_pc[i] = "blocked"
    /\ thr_pc' = [thr_pc EXCEPT ![i] = "woken"]
    /\ UNCHANGED <<scenarioVars, proc, phase, ctl_pc, args, per_thread, spawn_i, start_flag,
                   ready, start_mx, thr_n, thr_token, joined, t0, t1, dur, clock, queue,
                   prepared, recorderVars, result, hist>>

RW_Spurious ==
    /\ Running /\ ctl_pc = "cv_blocked"
    /\ ctl_pc' = "cv_woken"
    /\ UNCHANGED <<scenarioVars, proc, phase, args, runLocals, dur, clock, queue, prepared,
                   recorderVars, result, hist>>

NoteBegin == [hist EXCEPT !.begin_calls = @ + 1,
                          !.first_begin = IF @ = -1 THEN clock ELSE @]

\* recorder.begin: claim the next index; store the start time when recording.
\* A store to a slot outside the array is undefined: see P_BeginOutside.
ClaimIndex(i) ==
    /\ rec.next \in Nat
    /\ issued' = issued \cup {rec.next}
    /\ dup' = (dup \/ rec.next \in issued)
    /\ thr_token' = [thr_token EXCEPT ![i] = [index |-> rec.next,
                                              record |-> args.record_latency]]

P_Begin(i) ==
    /\ Running /\ thr_pc[i] = "loop" /\ thr_n[i] < per_thread[i]
    /\ ~args.record_latency \/ InRange(rec, rec.next)
    /\ ClaimIndex(i)
    /\ IF args.record_latency
       THEN /\ rec' = [rec EXCEPT !.next = NextIndex(@),
                                  !.slots[rec.next].start = clock]
            /\ clock' \in ClockAfterRead
       ELSE /\ rec' = [rec EXCEPT !.next = NextIndex(@)]
            /\ clock' = clock
    /\ hist' = NoteBegin
    /\ thr_pc' = [thr_pc EXCEPT ![i] = "log"]
    /\ UNCHANGED <<scenarioVars, proc, phase, ctl_pc, args, per_thread, spawn_i, start_flag,
                   ready, start_mx, thr_n, joined, t0, t1, dur, queue, prepared, result,
                   proto>>

\* begin with recording on and an index at or past capacity: the store is
\* outside the slot array; it either leaves the recorder untouched or faults.
P_BeginOutside(i) ==
    /\ Running /\ thr_pc[i] = "loop" /\ thr_n[i] < per_thread[i]
    /\ args.record_latency /\ ~InRange(rec, rec.next)
    /\ ClaimIndex(i)
    /\ rec' = [rec EXCEPT !.next = NextIndex(@)]
    /\ clock' \in ClockAfterRead
    /\ hist' = NoteBegin
    /\ \/ proc' = proc /\ thr_pc' = [thr_pc EXCEPT ![i] = "log"]
       \/ proc' = "segv" /\ thr_pc' = thr_pc
    /\ UNCHANGED <<scenarioVars, phase, ctl_pc, args, per_thread, spawn_i, start_flag,
                   ready, start_mx, thr_n, joined, t0, t1, dur, queue, prepared, result,
                   proto>>

\* recorder.complete(token): no-op unless recording; stores the end time.
CompleteInRange(tok) == ~tok.record \/ InRange(rec, tok.index)

Complete(tok) ==
    IF tok.record
    THEN /\ rec' = IF InRange(rec, tok.index)
                   THEN [rec EXCEPT !.slots[tok.index].end = clock] ELSE rec
         /\ clock' \in ClockAfterRead
    ELSE UNCHANGED <<rec, clock>>

NoteLog == [hist EXCEPT !.log_calls = @ + 1, !.last_log = clock]

\* Bookkeeping of the calls a token has received: log after begin and once,
\* complete after log and once.
Logged(pr, tok) ==
    [pr EXCEPT !.logged = @ \cup {tok.index},
               !.violated = @ \/ tok.index \in pr.logged \/ tok.index \notin issued]
Completed(pr, tok) ==
    [pr EXCEPT !.completed = @ \cup {tok.index},
               !.violated = @ \/ tok.index \in pr.completed \/ tok.index \notin pr.logged]

\* adapter.log: a synchronous backend completes the token before returning,
\* an asynchronous one hands it to its sink thread.
P_LogDropped(i) ==
    /\ Running /\ thr_pc[i] = "log"
    /\ hist' = NoteLog
    /\ thr_n' = [thr_n EXCEPT ![i] = @ + 1]
    /\ thr_token' = [thr_token EXCEPT ![i] = NoToken]
    /\ thr_pc' = [thr_pc EXCEPT ![i] = "loop"]
    /\ UNCHANGED <<scenarioVars, proc, phase, ctl_pc, args, per_thread, spawn_i, start_flag,
                   ready, start_mx, joined, t0, t1, dur, prepared, result, recorderVars,
                   clock, queue>>

P_Log(i) ==
    /\ Running /\ thr_pc[i] = "log"
    /\ IF scenario.async
       THEN /\ queue' = queue \cup {thr_token[i]} /\ UNCHANGED <<rec, clock, proc>>
            /\ proto' = Logged(proto, thr_token[i])
       ELSE /\ queue' = queue
            /\ Complete(thr_token[i])
            /\ proto' = Completed(Logged(proto, thr_token[i]), thr_token[i])
            /\ \/ proc' = proc
               \/ ~CompleteInRange(thr_token[i]) /\ proc' = "segv"
    /\ hist' = NoteLog
    /\ thr_n' = [thr_n EXCEPT ![i] = @ + 1]
    /\ thr_token' = [thr_token EXCEPT ![i] = NoToken]
    /\ thr_pc' = [thr_pc EXCEPT ![i] = "loop"]
    /\ UNCHANGED <<scenarioVars, phase, ctl_pc, args, per_thread, spawn_i, start_flag,
                   ready, start_mx, joined, t0, t1, dur, prepared, result, issued, dup>>

P_Finish(i) ==
    /\ Running /\ thr_pc[i] = "loop" /\ thr_n[i] >= per_thread[i]
    /\ thr_pc' = [thr_pc EXCEPT ![i] = "done"]
    /\ UNCHANGED <<scenarioVars, proc, phase, ctl_pc, args, per_thread, spawn_i, start_flag,
                   ready, start_mx, thr_n, thr_token, joined, t0, t1, dur, clock, queue,
                   prepared, recorderVars, result, hist>>

\* recorder.begin or adapter.log throws inside the thread function of lines
\* 85-97, which has no handler: an exception leaving a std::thread's function
\* calls std::terminate.
P_Throw(i) ==
    /\ Running
    /\ \/ thr_pc[i] = "loop" /\ thr_n[i] < per_thread[i]
       \/ thr_pc[i] = "log"
    /\ hist' = [hist EXCEPT !.producer_threw = TRUE]
    /\ proc' = "terminate"
    /\ UNCHANGED <<scenarioVars, phase, ctl_pc, args, runLocals, dur, clock, queue, prepared,
                   recorderVars, result>>

\* The sink thread of an asynchronous backend completes one queued token.
S_Complete(tok) ==
    /\ Running /\ tok \in queue
    /\ queue' = queue \ {tok}
    /\ Complete(tok)
    /\ proto' = Completed(proto, tok)
    /\ \/ proc' = proc
       \/ ~CompleteInRange(tok) /\ proc' = "segv"
    /\ UNCHANGED <<scenarioVars, phase, ctl_pc, args, runLocals, dur, prepared, result,
                   issued, dup, hist>>

\* ---- specifications ----

ControllerStep ==
    \/ E_Construct \/ E_Prepare \/ E_CallWarmup \/ E_CallMeasured \/ E_Finalize
    \/ RW_Distribute \/ RW_Spawn \/ RW_SpawnFail
    \/ RW_Lock \/ RW_Reacquire \/ RW_T0 \/ RW_Release \/ RW_Join
    \/ RW_FlushCall \/ RW_FlushReturn \/ RW_Return

\* Lines 61-64; main's matrix has no scenario with zero producers.
ZeroProducerStep == RW_ZeroFlush \/ RW_ZeroReturn

ProducerStep(i) ==
    \/ P_Arrive(i) \/ P_Reacquire(i) \/ P_Begin(i) \/ P_BeginOutside(i)
    \/ P_Log(i) \/ P_Finish(i) \/ P_Throw(i)

Next ==
    \/ ControllerStep
    \/ ZeroProducerStep
    \/ \E i \in Producers : ProducerStep(i)
    \/ \E tok \in queue : S_Complete(tok)
    \/ \E i \in Producers : P_Spurious(i)
    \/ RW_Spurious

Spec == Init /\ [][Next]_vars

\* The same program when start_cv never wakes a thread without a notification.
NextNoSpurious ==
    \/ ControllerStep
    \/ ZeroProducerStep
    \/ \E i \in Producers : ProducerStep(i)
    \/ \E tok \in queue : S_Complete(tok)

SpecNoSpurious == Init /\ [][NextNoSpurious]_vars

\* finalize on its own: execute_scenario stands at line 162 with a quiesced
\* recorder whose slots are unused, begun only, or begun and completed later.
SlotStates ==
    {sl \in [start : -1 .. MaxTime, end : -1 .. MaxTime] :
        sl.end # -1 => (sl.start # -1 /\ sl.start <= sl.end)}

InitFinalize ==
    /\ \E n \in 0 .. MaxSlots :
          /\ scenario = [producers |-> 1, total_messages |-> n, async |-> FALSE]
          /\ rec \in [capacity : {n}, next : {n}, slots : [0 .. (n - 1) -> SlotStates]]
          /\ issued = 0 .. (n - 1)
          /\ per_thread = [i \in {0} |-> n]
          /\ thr_n = [i \in {0} |-> n]
    /\ warmup_messages = 0
    /\ proc = "running"
    /\ phase = "measured"
    /\ ctl_pc = "finalize"
    /\ args = [total_messages |-> scenario.total_messages, record_latency |-> TRUE,
               measure_duration |-> TRUE]
    /\ spawn_i = 1
    /\ start_flag = TRUE
    /\ ready = 1
    /\ start_mx = "free"
    /\ thr_pc = [i \in {0} |-> "done"]
    /\ thr_token = [i \in {0} |-> NoToken]
    /\ joined = {0}
    /\ t0 = 0
    /\ t1 = MaxTime
    /\ dur = MaxTime
    /\ clock = MaxTime
    /\ queue = {}
    /\ prepared = TRUE
    /\ result = NoResult
    /\ dup = FALSE
    /\ proto = [logged |-> issued, completed |-> issued, violated |-> FALSE]
    /\ hist = FreshHist
    /\ MainIdle

NextFinalize == E_Finalize

SpecFinalize == InitFinalize /\ [][NextFinalize]_vars

\* ---- main: sweep and watchdog ----

execState == <<phase, args, runLocals, dur, rec, queue, prepared, result, issued, dup, proto,
               hist>>

InitMain ==
    /\ scenario \in [producers : {1}, total_messages : 0 .. MaxTotal, async : {FALSE}]
    /\ warmup_messages \in 0 .. MaxWarmup
    /\ timeout_enabled \in BOOLEAN
    /\ main_pc = "start"
    /\ sweep_left = SweepLength
    /\ wd_pc = "none"
    /\ watchdog_done = FALSE
    /\ deadline_passed = FALSE
    /\ report = NoReport
    /\ proc = "running"
    /\ phase = "none"
    /\ ctl_pc = "main"
    /\ args = [total_messages |-> 0, record_latency |-> FALSE, measure_duration |-> FALSE]
    /\ per_thread = << >>
    /\ spawn_i = 0
    /\ start_flag = FALSE
    /\ ready = 0
    /\ start_mx = "free"
    /\ thr_pc = [i \in Producers |-> "none"]
    /\ thr_n = [i \in Producers |-> 0]
    /\ thr_token = [i \in Producers |-> NoToken]
    /\ joined = {}
    /\ t0 = 0
    /\ t1 = 0
    /\ dur = 0
    /\ clock = 1
    /\ rec = NewRecorder(0)
    /\ queue = {}
    /\ prepared = FALSE
    /\ result = NoResult
    /\ issued = {}
    /\ dup = FALSE
    /\ proto = NoCalls
    /\ hist = FreshHist

\* Lines 245-259: the watchdog thread is started only when timeout_seconds > 0.
M_StartWatchdog ==
    /\ Running /\ main_pc = "start"
    /\ wd_pc' = IF timeout_enabled THEN "load" ELSE "none"
    /\ main_pc' = "sweep"
    /\ UNCHANGED <<scenario, warmup_messages, proc, ctl_pc, execState, clock, sweep_left,
                   timeout_enabled, watchdog_done, deadline_passed, report>>

\* Lines 261-279: the next scenario of the matrix, with the sweep's totals.
M_CallExecute ==
    /\ Running /\ main_pc = "sweep" /\ sweep_left > 0
    /\ scenario' \in [producers : 1 .. MaxProducers,
                       total_messages : {scenario.total_messages}, async : BOOLEAN]
    /\ main_pc' = "scenario"
    /\ ctl_pc' = "construct"
    /\ phase' = "none"
    /\ args' = [total_messages |-> 0, record_latency |-> FALSE, measure_duration |-> FALSE]
    /\ per_thread' = << >>
    /\ spawn_i' = 0
    /\ start_flag' = FALSE
    /\ ready' = 0
    /\ start_mx' = "free"
    /\ thr_pc' = [i \in 0 .. (scenario'.producers - 1) |-> "none"]
    /\ thr_n' = [i \in 0 .. (scenario'.producers - 1) |-> 0]
    /\ thr_token' = [i \in 0 .. (scenario'.producers - 1) |-> NoToken]
    /\ joined' = {}
    /\ t0' = 0
    /\ t1' = 0
    /\ dur' = 0
    /\ rec' = NewRecorder(0)
    /\ prepared' = FALSE
    /\ result' = NoResult
    /\ issued' = {}
    /\ dup' = FALSE
    /\ proto' = NoCalls
    /\ hist' = FreshHist
    /\ UNCHANGED <<warmup_messages, proc, clock, queue, sweep_left, timeout_enabled, wd_pc,
                   watchdog_done, deadline_passed, report>>

\* Lines 280-281: append_csv and print_summary succeed.
M_Report ==
    /\ Running /\ main_pc = "scenario" /\ ctl_pc = "done"
    /\ sweep_left' = sweep_left - 1
    /\ main_pc' = "sweep"
    /\ ctl_pc' = "main"
    /\ UNCHANGED <<scenario, warmup_messages, proc, execState, clock, timeout_enabled, wd_pc,
                   watchdog_done, deadline_passed, report>>

\* Line 185: append_csv throws; the exception leaves the loops.
M_ReportFail ==
    /\ Running /\ main_pc = "scenario" /\ ctl_pc = "done"
    /\ report' = [report EXCEPT !.failed = TRUE]
    /\ main_pc' = "catch"
    /\ ctl_pc' = "main"
    /\ UNCHANGED <<scenario, warmup_messages, proc, execState, clock, sweep_left,
                   timeout_enabled, wd_pc, watchdog_done, deadline_passed>>

\* An exception that left execute_scenario on the controlling thread.
M_ScenarioThrew ==
    /\ Running /\ main_pc = "scenario" /\ ctl_pc = "exception"
    /\ report' = [report EXCEPT !.failed = TRUE]
    /\ main_pc' = "catch"
    /\ ctl_pc' = "main"
    /\ UNCHANGED <<scenario, warmup_messages, proc, execState, clock, sweep_left,
                   timeout_enabled, wd_pc, watchdog_done, deadline_passed>>

\* Line 287 (sweep over) and line 290 (handler): watchdog_done.store(true).
StopWatchdog(next_pc) ==
    /\ watchdog_done' = TRUE
    /\ report' = [report EXCEPT !.over_in_time = ~deadline_passed]
    /\ main_pc' = next_pc
    /\ UNCHANGED <<scenario, warmup_messages, proc, ctl_pc, execState, clock, sweep_left,
                   timeout_enabled, wd_pc, deadline_passed>>

M_SweepDone == Running /\ main_pc = "sweep" /\ sweep_left = 0 /\ StopWatchdog("join_ok")

M_Caught == Running /\ main_pc = "catch" /\ StopWatchdog("join_err")

\* Lines 288 and 295: join the watchdog if joinable, return 0.
M_JoinReturn ==
    /\ Running /\ main_pc = "join_ok"
    /\ wd_pc \in {"none", "left"}
    /\ wd_pc' = IF wd_pc = "left" THEN "joined" ELSE wd_pc
    /\ main_pc' = "returned"
    /\ proc' = "exit0"
    /\ UNCHANGED <<scenario, warmup_messages, ctl_pc, execState, clock, sweep_left,
                   timeout_enabled, watchdog_done, deadline_passed, report>>

\* Lines 291-293: join the watchdog if joinable, report the failure, return 1.
M_JoinFail ==
    /\ Running /\ main_pc = "join_err"
    /\ wd_pc \in {"none", "left"}
    /\ wd_pc' = IF wd_pc = "left" THEN "joined" ELSE wd_pc
    /\ report' = [report EXCEPT !.failure_msgs = @ + 1]
    /\ main_pc' = "returned"
    /\ proc' = "exit1"
    /\ UNCHANGED <<scenario, warmup_messages, ctl_pc, execState, clock, sweep_left,
                   timeout_enabled, watchdog_done, deadline_passed>>

\* Line 248: the loop condition reads watchdog_done.
W_Load ==
    /\ Running /\ wd_pc = "load"
    /\ wd_pc' = IF watchdog_done THEN "left" ELSE "check"
    /\ UNCHANGED <<scenario, warmup_messages, proc, ctl_pc, execState, clock, main_pc,
                   sweep_left, timeout_enabled, watchdog_done, deadline_passed, report>>

\* Lines 249-256: past the deadline the process ends with _Exit(124),
\* otherwise the thread sleeps and reads watchdog_done again.
W_Check ==
    /\ Running /\ wd_pc = "check"
    /\ IF deadline_passed
       THEN proc' = "exit124" /\ wd_pc' = wd_pc
       ELSE proc' = proc /\ wd_pc' = "load"
    /\ UNCHANGED <<scenario, warmup_messages, ctl_pc, execState, clock, main_pc, sweep_left,
                   timeout_enabled, watchdog_done, deadline_passed, report>>

\* Time reaches the deadline computed at line 247.
T_Deadline ==
    /\ Running /\ wd_pc \in {"load", "check"} /\ ~deadline_passed
    /\ deadline_passed' = TRUE
    /\ UNCHANGED <<scenario, warmup_messages, proc, ctl_pc, execState, clock, main_pc,
                   sweep_left, timeout_enabled, wd_pc, watchdog_done, report>>

MainStep ==
    \/ M_StartWatchdog \/ M_CallExecute \/ M_Report \/ M_ReportFail \/ M_ScenarioThrew
    \/ M_SweepDone \/ M_Caught \/ M_JoinReturn \/ M_JoinFail

NextMain ==
    \/ MainStep
    \/ W_Load \/ W_Check \/ T_Deadline
    \/ ControllerStep
    \/ \E i \in Producers : ProducerStep(i)
    \/ \E tok \in queue : S_Complete(tok)
    \/ \E i \in Producers : P_Spurious(i)
    \/ RW_Spurious

SpecMain == InitMain /\ [][NextMain]_vars

\* ---- properties ----

\* run_workload has returned to execute_scenario (normally).
RunReturned == phase # "none" /\ ctl_pc \in {"call_measured", "finalize", "done"}
PastBarrier(i) == thr_pc[i] \in {"loop", "log", "done"}
ShareSum == SumTo(per_thread, scenario.producers)

\* C1: no producer passes the start barrier or calls begin/log before every
\* producer has incremented ready and the controlling thread has set
\* start_flag; ready never exceeds producers; start_flag implies ready = producers.
C1_BarrierSafety ==
    /\ ready <= scenario.producers
    /\ start_flag => ready = scenario.producers
    /\ \A i \in Producers :
          PastBarrier(i) => start_flag /\ ready = scenario.producers
    /\ hist.begin_calls > 0 => start_flag /\ ready = scenario.producers

C1_Witness ==
    /\ scenario.producers = 2
    /\ thr_pc[0] = "log" /\ thr_pc[1] = "woken"

\* C2: without spurious wakeups the barrier never reaches a state in which
\* the controlling thread and every producer are blocked on start_cv.
C2_NoBarrierDeadlock ==
    ~(/\ proc = "running"
      /\ ctl_pc = "cv_blocked"
      /\ \A i \in Producers : thr_pc[i] = "blocked")

\* C3 as stated: for every producers count, a returned run has shares summing
\* to total_messages and issued exactly total_messages begin and log calls.
C3_SharesSumAllScenarios ==
    RunReturned =>
        /\ ShareSum = args.total_messages
        /\ hist.begin_calls = args.total_messages
        /\ hist.log_calls = args.total_messages

\* C3 amended: the sum and the call counts equal total_messages when
\* producers >= 1; with zero producers no share exists and no call is made.
C3_SharesSum ==
    /\ (ctl_pc # "rw_entry" /\ phase # "none" /\ scenario.producers >= 1)
          => ShareSum = args.total_messages
    /\ RunReturned =>
          IF scenario.producers >= 1
          THEN /\ hist.begin_calls = args.total_messages
               /\ hist.log_calls = args.total_messages
          ELSE /\ per_thread = << >>
               /\ hist.begin_calls = 0 /\ hist.log_calls = 0

C3_Witness ==
    /\ RunReturned /\ scenario.producers = 2 /\ args.total_messages = 1
    /\ hist.begin_calls = 1

\* C4: begin never hands out a slot index it handed out before, so tokens
\* held or queued at the same time carry pairwise distinct indices.
C4_DistinctIndices ==
    /\ ~dup
    /\ \A i, j \in Producers :
          (i # j /\ thr_pc[i] = "log" /\ thr_pc[j] = "log")
              => thr_token[i].index # thr_token[j].index
    /\ \A i \in Producers : \A tok \in queue :
          thr_pc[i] = "log" => thr_token[i].index # tok.index
    /\ Cardinality(issued) = rec.next

C4_Witness ==
    /\ scenario.producers = 2
    /\ thr_pc[0] = "log" /\ thr_pc[1] = "log"

\* C5: with producers >= 1, finalize after warm-up and measured run reduces
\* exactly total_messages samples, whatever warmup_messages is.
C5_WarmupIsolation ==
    (result.set /\ scenario.producers >= 1) => result.count = scenario.total_messages

\* C6: after the measured run returns, the number of completed slots equals
\* the run's total_messages, for every producers count.
C6_CompletedEqualsTotal ==
    (RunReturned /\ phase = "measured") => CompletedSlots(rec) = args.total_messages

\* C7: flush is called only after every producer finished and was joined,
\* t1 is captured only after flush returned, and at a normal return of a run
\* with producers everything logged has been flushed.
AllJoined == \A i \in Producers : thr_pc[i] = "done" /\ i \in joined

C7_JoinFlushOrder ==
    scenario.producers >= 1 =>
        /\ hist.flush_calls > 0 => AllJoined
        /\ ctl_pc \in {"flush", "flushing", "ret"} => AllJoined
        /\ hist.t1_set => hist.flushed
        /\ hist.flush_calls <= 1
        /\ RunReturned => AllJoined /\ hist.flushed /\ queue = {}
                             /\ hist.flush_calls = 1

C7_Witness ==
    /\ RunReturned /\ phase = "measured" /\ scenario.producers = 2 /\ scenario.async
    /\ hist.log_calls = 2 /\ hist.t1_set

\* C8: in a measured run t0 is captured after all producers signalled and
\* before any is released, so every begin/log lies between t0 and t1.
C8_MeasuredWindow ==
    (args.measure_duration /\ phase # "none") =>
        /\ hist.t0_set => ready = scenario.producers
        /\ start_flag => hist.t0_set
        /\ \A i \in Producers : PastBarrier(i) => hist.t0_set
        /\ hist.begin_calls > 0 => hist.t0_set /\ t0 <= hist.first_begin
        /\ (hist.t1_set /\ hist.log_calls > 0) =>
              /\ hist.last_log <= t1
              /\ hist.begin_calls = hist.log_calls
              /\ dur = t1 - t0

C8_Witness ==
    /\ RunReturned /\ args.measure_duration /\ hist.t1_set
    /\ scenario.producers = 2 /\ hist.begin_calls = 2 /\ dur > 0

\* C9: with zero producers run_workload starts no thread, makes no begin or
\* log call, flushes exactly once and returns a zero duration.
C9_ZeroProducers ==
    scenario.producers = 0 =>
        /\ spawn_i = 0 /\ hist.begin_calls = 0 /\ hist.log_calls = 0
        /\ hist.flush_calls <= 1
        /\ RunReturned => hist.flush_calls = 1 /\ hist.flushed /\ dur = 0

C9_Witness ==
    /\ RunReturned /\ scenario.producers = 0 /\ phase = "measured"
    /\ args.total_messages > 0 /\ args.measure_duration

\* C10: when creating a producer thread fails, every thread already started
\* has been joined when the error surfaces, and the process is not terminated
\* by the destruction of a joinable thread.
C10_SpawnFailureJoinsStarted ==
    hist.spawn_failed =>
        /\ proc # "terminate"
        /\ \A i \in 0 .. (spawn_i - 1) : i \in joined

\* C11: an error raised by begin or log inside a producer thread reaches
\* main's handler: the process is not ended in any other way, and it ends
\* with one failure message, the watchdog stopped and exit status 1.
C11_ProducerErrorReachesDriver ==
    hist.producer_threw =>
        /\ proc \in {"running", "exit1"}
        /\ proc = "exit1" => report.failure_msgs = 1 /\ watchdog_done

\* C12: for producers >= 1, thread i is assigned total/producers + 1 messages
\* when i < total mod producers and total/producers otherwise; shares differ
\* by at most one; a finished thread has logged exactly its share.
SharesComputed == phase # "none" /\ ctl_pc # "rw_entry" /\ scenario.producers >= 1

C12_EvenDistribution ==
    SharesComputed =>
        /\ \A i \in Producers :
              per_thread[i] = (args.total_messages \div scenario.producers)
                  + (IF i < args.total_messages % scenario.producers THEN 1 ELSE 0)
        /\ \A i, j \in Producers :
              per_thread[i] - per_thread[j] <= 1 /\ (i <= j => per_thread[i] >= per_thread[j])
        /\ \A i \in Producers : thr_pc[i] = "done" => thr_n[i] = per_thread[i]

C12_Witness ==
    /\ SharesComputed /\ scenario.producers = 2 /\ args.total_messages = 1
    /\ thr_pc[0] = "done" /\ thr_pc[1] = "done"

\* C13: a run with measure_duration false returns a zero duration and reads
\* neither t0 nor t1, and with producers >= 1 it still ran the whole
\* workload: barrier released, all begin/log calls, joins and one flush.
C13_WarmupZeroDuration ==
    (RunReturned /\ ~args.measure_duration) =>
        /\ dur = 0 /\ ~hist.t0_set /\ ~hist.t1_set
        /\ scenario.producers >= 1 =>
              /\ start_flag /\ ready = scenario.producers
              /\ hist.begin_calls = args.total_messages
              /\ hist.log_calls = args.total_messages
              /\ \A i \in Producers : thr_pc[i] = "done" /\ i \in joined
              /\ hist.flush_calls = 1 /\ hist.flushed

C13_Witness ==
    /\ RunReturned /\ ~args.measure_duration
    /\ scenario.producers = 2 /\ args.total_messages = 2 /\ hist.log_calls = 2

\* C14: the reported throughput is total_messages over the measured duration
\* when that duration is strictly positive and exactly zero otherwise.
C14_ThroughputGuard ==
    result.set =>
        /\ result.duration = dur
        /\ dur > 0 => /\ result.throughput.messages = scenario.total_messages
                       /\ result.throughput.per_ns = dur
        /\ dur <= 0 => result.throughput.messages = 0

C14_Witness ==
    /\ result.set /\ dur = 0
    /\ scenario.producers >= 1 /\ scenario.total_messages >= 1

\* C16: the summary of finalize has p50 <= p99 <= p99.9 for a non-empty set of
\* recorded durations, each percentile being one of them, and all three are 0
\* when no duration was recorded.
RecordedDurations ==
    {rec.slots[k].end - rec.slots[k].start :
        k \in {x \in DOMAIN rec.slots : rec.slots[x].start # -1 /\ rec.slots[x].end # -1}}

C16_PercentileMonotone ==
    result.set =>
        IF RecordedDurations = {}
        THEN result.count = 0 /\ result.summary = [p50_ns |-> 0, p99_ns |-> 0, p999_ns |-> 0]
        ELSE /\ result.summary.p50_ns <= result.summary.p99_ns
             /\ result.summary.p99_ns <= result.summary.p999_ns
             /\ result.summary.p50_ns \in RecordedDurations
             /\ \A d \in RecordedDurations : d <= result.summary.p999_ns

C16_Witness ==
    /\ result.set /\ result.count = 3
    /\ rec.slots[0].end - rec.slots[0].start > rec.slots[1].end - rec.slots[1].start
    /\ result.summary.p50_ns < result.summary.p99_ns

\* C17: every slot index that begin hands out during execute_scenario is
\* strictly below the capacity the recorder was built with.
C17_IndexWithinCapacity ==
    phase # "none" => \A idx \in issued : idx < rec.capacity

\* C18: prepare precedes the warm-up run; when the measured run is entered the
\* warm-up producers are joined and the adapter is flushed and drained; once
\* finalize is due or has run, every producer is joined, the adapter is
\* flushed and drained, and no begin or complete can follow.
Quiesced ==
    /\ \A i \in Producers : thr_pc[i] = "done" /\ i \in joined
    /\ queue = {}
    /\ hist.flushed /\ hist.flush_calls = 1

C18_PhaseOrdering ==
    /\ phase # "none" => prepared
    /\ ctl_pc = "call_warmup" => prepared /\ rec.next = 0
    /\ ctl_pc = "call_measured" => phase = "warmup" /\ Quiesced
    /\ (phase = "measured" /\ hist.begin_calls = 0 /\ scenario.producers >= 1)
          => rec.next = warmup_messages
    /\ ctl_pc = "finalize" => phase = "measured" /\ Quiesced
    /\ result.set => ctl_pc = "done" /\ phase = "measured" /\ Quiesced
                       /\ result.count = Finalize(rec).count

C18_Witness ==
    /\ result.set /\ scenario.async /\ scenario.producers = 2
    /\ warmup_messages >= 1 /\ hist.log_calls = 2

\* C19: every token begin returned is passed to adapter.log exactly once, by
\* the producer that obtained it and after begin returned; each token is
\* completed exactly once and not before its begin and its log.
HeldTokens == {thr_token[i].index : i \in {p \in Producers : thr_pc[p] = "log"}}

C19_TokenProtocol ==
    /\ ~proto.violated
    /\ proto.completed \subseteq proto.logged
    /\ proto.logged \subseteq issued
    /\ HeldTokens \subseteq issued
    /\ HeldTokens \cap proto.logged = {}
    /\ Running => proto.logged = issued \ HeldTokens
    /\ {tok.index : tok \in queue} = proto.logged \ proto.completed
    /\ RunReturned => proto.logged = issued /\ proto.completed = issued
    /\ \A k \in DOMAIN rec.slots :
          rec.slots[k].end # -1 =>
              /\ rec.slots[k].start # -1 /\ rec.slots[k].start <= rec.slots[k].end
              /\ k \in proto.completed

C19_Witness ==
    /\ scenario.async /\ scenario.producers = 2 /\ phase = "measured"
    /\ thr_pc[0] = "log" /\ thr_token[0].index \notin proto.logged
    /\ \E k \in DOMAIN rec.slots : rec.slots[k].end # -1

\* C20: with the watchdog enabled, the process ends with 124 only when the
\* sweep was not over before the deadline; a sweep that finished or failed
\* with an exception first ends with 0 or 1 respectively, after main set
\* watchdog_done and joined the watchdog, which left its loop on seeing
\* watchdog_done; the process never ends in any other way.
SweepFailed == report.failed \/ hist.producer_threw \/ hist.spawn_failed

C20_WatchdogProtocol ==
    timeout_enabled =>
        /\ proc \in {"running", "exit0", "exit1", "exit124"}
        /\ proc = "exit124" => deadline_passed /\ ~report.over_in_time
        /\ report.over_in_time => proc # "exit124"
        /\ wd_pc \in {"left", "joined"} => watchdog_done
        /\ proc = "exit0" => ~SweepFailed /\ sweep_left = 0 /\ wd_pc = "joined"
        /\ proc = "exit1" => SweepFailed /\ wd_pc = "joined" /\ report.failure_msgs = 1
        /\ (SweepFailed /\ proc # "running") => proc \in {"exit1", "exit124"}

====
